---- MODULE Spec2Model ----
(***************************************************************************)
(* Always-listen audio pipeline of speechtotext_windows: the capture       *)
(* callback, the bounded channels, the AudioBufferManager, the VadEngine   *)
(* and the worker thread's processing_loop / finalize_recording, together  *)
(* with the controller's owner thread (start/stop/pause/resume,            *)
(* try_recv_result, Drop), the polling thread of run_app that owns the     *)
(* controller in the application, and the application's event loop.        *)
(*                                                                         *)
(* Audio is modelled in blocks ("grains") of GrainSamples consecutive      *)
(* samples: [id |-> position of the block in the captured stream,          *)
(* amp |-> amplitude of its samples, in thousandths].  Every length the    *)
(* model uses (chunk, frame, pre-roll capacity, 1600) is a whole number of *)
(* grains, so a grain is never split.  f32 energies are fixed-point        *)
(* thousandths; durations are integer milliseconds.                        *)
(***************************************************************************)
EXTENDS Integers, Sequences, FiniteSets, TLC

VARIABLES
    cfg,            \* AlwaysListenConfig given to AlwaysListenController::new
    state,          \* Arc<Mutex<AlwaysListenState>>
    running,        \* Arc<AtomicBool> running flag of the controller
    command_ch,     \* bounded(10) command channel
    audio_ch,       \* bounded(100) audio-chunk channel
    result_ch,      \* bounded(10) internal result channel
    result_rx,      \* the receiver of the result channel exists
    bm,             \* buffer_manager: AudioBufferManager (worker-owned)
    vad,            \* vad: VadEngine (worker-owned)
    sample_buffer,  \* sample_buffer: Vec<f32> of processing_loop
    current_state,  \* current_state local of processing_loop
    pc,             \* where the worker thread is
    pending,        \* audio held by finalize_recording while it sends
    app_pc,         \* where the controller's owner thread is
    app_cmd,        \* the command the owner thread is sending
    cb_pc,          \* where the capture callback is
    cb_chunk,       \* the chunk the capture callback is sending
    stream_pos,     \* number of grains the device has delivered so far
    ncmds,          \* number of start/stop/pause/resume calls made so far
    onset,          \* id of the first grain of the first voice frame counted in voice_frames (0: none)
    rec_onset,      \* onset at the latest start_recording
    rec_trig,       \* id of the last grain of the frame that called start_recording
    fin,            \* outcome of the latest finalize_recording
    script,         \* the scripted input (silence, tone, silence) when one is played
    obs,            \* what a scripted run has shown so far (see NoObs)
    last,           \* what the latest step of the worker, or of a unit run, did
    mode,           \* state: Arc<Mutex<AppMode>> of run_app
    always_listen_active,   \* always_listen_active: Arc<AtomicBool> of run_app
    events,         \* user events sent to the event loop and not yet handled
    jobs,           \* target statuses of the transcription threads still running
    nkeys,          \* number of hotkey presses so far
    always_listen_stream_running,   \* the running flag of the always-listen stream
    result_out      \* the channel whose sender run_app passes to new()

vars == <<cfg, state, running, command_ch, audio_ch, result_ch, bm, vad,
          sample_buffer, current_state, pc, pending, app_pc, app_cmd, cb_pc,
          cb_chunk, stream_pos, ncmds, onset, rec_onset, rec_trig, fin,
          script, obs, result_rx, last, mode, always_listen_active, events,
          jobs, nkeys, always_listen_stream_running, result_out>>

workerVars == <<state, bm, vad, sample_buffer, current_state, pc, pending>>
ghostVars == <<onset, rec_onset, rec_trig, fin, obs, last>>
appVars == <<app_pc, app_cmd, ncmds>>
cbVars == <<cb_pc, cb_chunk, stream_pos>>
uiVars == <<mode, always_listen_active, events, jobs, nkeys,
           always_listen_stream_running, result_out>>

(***************************************************************************)
(* Program constants                                                       *)
(***************************************************************************)
SampleRate == 16000
MinUtteranceSamples == 1600
CommandCapacity == 10
ResultCapacity == 10
AudioCapacity == 100
DebounceFrames == 10
AlphaTenths == 3

\* one grain: 25 ms of 16 kHz audio
GrainSamples == SampleRate \div 40

(***************************************************************************)
(* Bounds of the model                                                     *)
(***************************************************************************)
MaxStreamGrains == 8
MaxChunkGrains == 4
MaxCommands == 2
MaxQueued == 1
MaxLead == 3
MaxTone == 4
MaxTail == 9
MaxBurstFrames == 24
MaxFloodChunks == 103
MaxFloodCommands == 12
MaxPreRollGrains == 3
MaxVadFrames == 14

(***************************************************************************)
(* Configurations and inputs                                               *)
(***************************************************************************)
ConfigA ==
    [pre_roll_duration_ms |-> 100, min_speech_duration_ms |-> 100,
     post_silence_duration_ms |-> 50, vad_threshold |-> 15,
     max_utterance_ms |-> 150, frame_samples |-> 800]

ConfigB ==
    [pre_roll_duration_ms |-> 50, min_speech_duration_ms |-> 50,
     post_silence_duration_ms |-> 50, vad_threshold |-> 15,
     max_utterance_ms |-> 300, frame_samples |-> 800]

ConfigT ==
    [pre_roll_duration_ms |-> 150, min_speech_duration_ms |-> 100,
     post_silence_duration_ms |-> 100, vad_threshold |-> 15,
     max_utterance_ms |-> 1000, frame_samples |-> 800]

Amps == {0, 30, 60, 200}
MaxAmp == CHOOSE a \in Amps : \A b \in Amps : b <= a

Zero == [id |-> 0, amp |-> 0]

\* the amplitudes a tone is played at
ToneAmps == Amps \ {0}

\* n grains of amplitude a, the first one at stream position first
Chunk(first, n, a) == [i \in 1..n |-> [id |-> first + i - 1, amp |-> a]]

Samples(s) == Len(s) * GrainSamples

(***************************************************************************)
(* AudioBufferManager                                                      *)
(***************************************************************************)
AudioBufferManager_new(sample_rate, pre_roll_duration_ms) ==
    LET cap == ((sample_rate * pre_roll_duration_ms) \div 1000) \div GrainSamples
    IN [pre_roll |-> [i \in 1..cap |-> Zero],
        pre_roll_pos |-> 0,
        pre_roll_full |-> FALSE,
        recording |-> <<>>,
        pre_roll_capacity |-> cap]

\* the index the first write of push_to_pre_roll uses is outside the ring
PreRollIndexPanics(b, samples) ==
    samples # <<>> /\ b.pre_roll_pos >= Len(b.pre_roll)

RECURSIVE push_to_pre_roll(_, _)
push_to_pre_roll(b, samples) ==
    IF samples = <<>> THEN b
    ELSE LET w == [b EXCEPT !.pre_roll[b.pre_roll_pos + 1] = Head(samples)]
             p == b.pre_roll_pos + 1
             n == IF p >= b.pre_roll_capacity
                  THEN [w EXCEPT !.pre_roll_pos = 0, !.pre_roll_full = TRUE]
                  ELSE [w EXCEPT !.pre_roll_pos = p]
         IN push_to_pre_roll(n, Tail(samples))

\* start_recording returning a full ring from its first slot
start_recording_unrotated(b) ==
    [b EXCEPT !.recording = IF b.pre_roll_full THEN b.pre_roll
                            ELSE SubSeq(b.pre_roll, 1, b.pre_roll_pos)]

\* start_recording without the wrapped case
start_recording_linear(b) ==
    [b EXCEPT !.recording = SubSeq(b.pre_roll, 1, b.pre_roll_pos)]

start_recording(b) ==
    LET result == IF b.pre_roll_full
                  THEN SubSeq(b.pre_roll, b.pre_roll_pos + 1, b.pre_roll_capacity)
                       \o SubSeq(b.pre_roll, 1, b.pre_roll_pos)
                  ELSE SubSeq(b.pre_roll, 1, b.pre_roll_pos)
    IN [b EXCEPT !.recording = result]

push_to_recording(b, samples) == [b EXCEPT !.recording = b.recording \o samples]

\* finalize leaving the recording in place
finalize_keeps(b) == b

\* finalize: the value returned is b.recording, the manager is left as below
finalize(b) == [b EXCEPT !.recording = <<>>]

\* reset leaving the full flag as it is
AudioBufferManager_reset_keeps_full(b) ==
    [b EXCEPT !.pre_roll_pos = 0,
              !.recording = <<>>,
              !.pre_roll = [i \in 1..Len(b.pre_roll) |-> Zero]]

AudioBufferManager_reset(b) ==
    [b EXCEPT !.pre_roll_pos = 0,
              !.pre_roll_full = FALSE,
              !.recording = <<>>,
              !.pre_roll = [i \in 1..Len(b.pre_roll) |-> Zero]]

\* recording_duration() > max_utterance_seconds, in milliseconds
RecordingTooLong(b, max_utterance_ms) ==
    Samples(b.recording) * 1000 > max_utterance_ms * SampleRate

(***************************************************************************)
(* VadEngine                                                               *)
(***************************************************************************)
VadEngine_new(threshold, frame_size) ==
    [threshold |-> threshold,
     frame_size |-> frame_size,
     voice_frames |-> 0,
     silence_frames |-> 0,
     smoothed_energy |-> 0]

ISqrt(n) == CHOOSE r \in 0..MaxAmp : r * r <= n /\ (r + 1) * (r + 1) > n

RECURSIVE SumSq(_)
SumSq(s) == IF s = <<>> THEN 0 ELSE Head(s).amp * Head(s).amp + SumSq(Tail(s))

\* rms of the first frame_size samples
FrameRms(frame, frame_size) ==
    LET n == frame_size \div GrainSamples
    IN ISqrt(SumSq(SubSeq(frame, 1, n)) \div n)

\* smoothing_alpha * rms + (1 - smoothing_alpha) * smoothed_energy
Smooth(rms, smoothed_energy) ==
    (AlphaTenths * rms + (10 - AlphaTenths) * smoothed_energy) \div 10

\* the reset one frame early
VoiceAfterSilence_early(voice_frames, silence_frames) ==
    IF silence_frames >= DebounceFrames THEN 0 ELSE voice_frames

\* voice_frames after a silent frame that made the silent run silence_frames long
VoiceAfterSilence(voice_frames, silence_frames) ==
    IF silence_frames > DebounceFrames THEN 0 ELSE voice_frames

\* a frame shorter than frame_size counted as a silent one
RejectFrame_counted(v) ==
    [vad |-> [v EXCEPT !.silence_frames = @ + 1], is_voice |-> FALSE, prob |-> 0]

\* the early return of process: (false, 0.0), the engine untouched
RejectFrame(v) == [vad |-> v, is_voice |-> FALSE, prob |-> 0]

\* (smoothed_energy / threshold).min(1.0), in thousandths
Probability(smoothed_energy, threshold) ==
    LET q == (smoothed_energy * 1000) \div threshold
    IN IF q < 1000 THEN q ELSE 1000

\* process: [vad |-> the engine afterwards, is_voice and prob |-> the pair returned]
VadEngine_process(v, frame) ==
    IF Samples(frame) < v.frame_size
    THEN RejectFrame(v)
    ELSE LET rms == FrameRms(frame, v.frame_size)
             se == Smooth(rms, v.smoothed_energy)
             is_voice == se > v.threshold
         IN [vad |-> IF is_voice
                     THEN [v EXCEPT !.smoothed_energy = se,
                                    !.voice_frames = v.voice_frames + 1,
                                    !.silence_frames = 0]
                     ELSE [v EXCEPT !.smoothed_energy = se,
                                    !.silence_frames = v.silence_frames + 1,
                                    !.voice_frames =
                                        VoiceAfterSilence(v.voice_frames,
                                                          v.silence_frames + 1)],
             is_voice |-> is_voice,
             prob |-> Probability(se, v.threshold)]

\* the comparisons made strict
has_sustained_voice_strict(v, min_frames) == v.voice_frames > min_frames

has_sustained_voice(v, min_frames) == v.voice_frames >= min_frames

has_sustained_silence_strict(v, min_frames) == v.silence_frames > min_frames

has_sustained_silence(v, min_frames) == v.silence_frames >= min_frames

VadEngine_reset(v) ==
    [v EXCEPT !.voice_frames = 0, !.silence_frames = 0, !.smoothed_energy = 0]

(***************************************************************************)
(* processing_loop: derived frame counts                                   *)
(***************************************************************************)
min_voice_frames(c) ==
    ((c.min_speech_duration_ms * SampleRate) \div 1000) \div c.frame_samples

silence_frames_threshold(c) ==
    ((c.post_silence_duration_ms * SampleRate) \div 1000) \div c.frame_samples

FrameGrains(c) == c.frame_samples \div GrainSamples

(***************************************************************************)
(* processing_loop and finalize_recording                                  *)
(***************************************************************************)
\* the length test with a tenth of the minimum
TooShort_tenth(audio) == Samples(audio) * 10 < MinUtteranceSamples

\* audio.len() < 1600
TooShort(audio) == Samples(audio) < MinUtteranceSamples

\* Pause leaving the state alone
ApplyCommand_pause_ignored(cmd, st, b, v) ==
    IF cmd = "Stop"
    THEN [state |-> "Paused", bm |-> b, vad |-> v]
    ELSE IF st = "Paused" /\ cmd # "Pause"
         THEN [state |-> "Listening",
               bm |-> AudioBufferManager_reset(b),
               vad |-> VadEngine_reset(v)]
         ELSE [state |-> st, bm |-> b, vad |-> v]

\* Resume from Paused keeping the VAD as it was
ApplyCommand_vad_kept(cmd, st, b, v) ==
    IF cmd \in {"Stop", "Pause"}
    THEN [state |-> "Paused", bm |-> b, vad |-> v]
    ELSE IF st = "Paused"
         THEN [state |-> "Listening",
               bm |-> AudioBufferManager_reset(b),
               vad |-> IF cmd = "Resume" THEN v ELSE VadEngine_reset(v)]
         ELSE [state |-> st, bm |-> b, vad |-> v]

\* Start resetting the buffers in every state
ApplyCommand_start_resets(cmd, st, b, v) ==
    IF cmd \in {"Stop", "Pause"}
    THEN [state |-> "Paused", bm |-> b, vad |-> v]
    ELSE IF st = "Paused" \/ cmd = "Start"
         THEN [state |-> IF st = "Paused" THEN "Listening" ELSE st,
               bm |-> AudioBufferManager_reset(b),
               vad |-> VadEngine_reset(v)]
         ELSE [state |-> st, bm |-> b, vad |-> v]

\* Start and Resume from Paused entering Detecting
ApplyCommand_detecting(cmd, st, b, v) ==
    IF cmd \in {"Stop", "Pause"}
    THEN [state |-> "Paused", bm |-> b, vad |-> v]
    ELSE IF st = "Paused"
         THEN [state |-> "Detecting",
               bm |-> AudioBufferManager_reset(b),
               vad |-> VadEngine_reset(v)]
         ELSE [state |-> st, bm |-> b, vad |-> v]

\* Start and Resume from Paused leaving the buffers as they are
ApplyCommand_buffers_kept(cmd, st, b, v) ==
    IF cmd \in {"Stop", "Pause"}
    THEN [state |-> "Paused", bm |-> b, vad |-> v]
    ELSE IF st = "Paused"
         THEN [state |-> "Listening", bm |-> b, vad |-> VadEngine_reset(v)]
         ELSE [state |-> st, bm |-> b, vad |-> v]

\* the match on the command taken by try_recv
ApplyCommand(cmd, st, b, v) ==
    IF cmd \in {"Stop", "Pause"}
    THEN [state |-> "Paused", bm |-> b, vad |-> v]
    ELSE IF st = "Paused"
         THEN [state |-> "Listening",
               bm |-> AudioBufferManager_reset(b),
               vad |-> VadEngine_reset(v)]
         ELSE [state |-> st, bm |-> b, vad |-> v]

\* the short branch leaving the VAD as it was
finalize_recording_keeps_vad(st, b, v) ==
    LET audio == b.recording
        b1 == finalize(b)
    IN IF TooShort(audio)
       THEN [state |-> "Listening", bm |-> AudioBufferManager_reset(b1),
             vad |-> v, outcome |-> "short", audio |-> <<>>,
             started |-> FALSE, panicked |-> FALSE, cut |-> FALSE]
       ELSE [state |-> st, bm |-> b1, vad |-> v, outcome |-> "send",
             audio |-> audio, started |-> FALSE, panicked |-> FALSE, cut |-> FALSE]

\* finalize_recording up to the send: the recording is taken; a short one is
\* discarded and everything reset, any other is handed to result_tx.send
finalize_recording(st, b, v) ==
    LET audio == b.recording
        b1 == finalize(b)
    IN IF TooShort(audio)
       THEN [state |-> "Listening", bm |-> AudioBufferManager_reset(b1),
             vad |-> VadEngine_reset(v), outcome |-> "short", audio |-> <<>>,
             started |-> FALSE, panicked |-> FALSE, cut |-> FALSE]
       ELSE [state |-> st, bm |-> b1, vad |-> v, outcome |-> "send",
             audio |-> audio, started |-> FALSE, panicked |-> FALSE, cut |-> FALSE]

\* the match on current_state for one frame, after vad.process
HandleFrame(cur, st, b, v, frame, c) ==
    LET same == [state |-> st, bm |-> b, vad |-> v, outcome |-> "none",
                 audio |-> <<>>, started |-> FALSE, panicked |-> FALSE, cut |-> FALSE]
    IN CASE cur = "Listening" ->
              IF PreRollIndexPanics(b, frame)
              THEN [same EXCEPT !.panicked = TRUE]
              ELSE LET b1 == push_to_pre_roll(b, frame)
                   IN IF has_sustained_voice(v, min_voice_frames(c))
                      THEN [same EXCEPT
                               !.state = "Recording",
                               !.bm = push_to_recording(start_recording(b1), frame),
                               !.started = TRUE]
                      ELSE [same EXCEPT !.bm = b1]
         [] cur = "Recording" ->
              LET b1 == push_to_recording(b, frame)
              IN IF RecordingTooLong(b1, c.max_utterance_ms)
                 THEN [finalize_recording(st, b1, v) EXCEPT !.cut = TRUE]
                 ELSE IF has_sustained_silence(v, silence_frames_threshold(c))
                      THEN finalize_recording(st, b1, v)
                      ELSE [same EXCEPT !.bm = b1]
         [] OTHER -> same

\* the condition of the inner while: where the worker goes with buf left
AfterFrame(buf, c) == IF Len(buf) >= FrameGrains(c) THEN "frames" ELSE "loop"

WorkerGone == pc \in {"exited", "panicked"}

Scripted == script.tone > 0

\* the worker's latest step applied no command and ended no finalize_recording
NoEvent == [ev |-> "none"]

\* while running.load(): the flag is false, the loop ends and the thread returns
WorkerExit ==
    /\ pc = "loop"
    /\ ~running
    /\ pc' = "exited"
    /\ UNCHANGED <<uiVars, cfg, result_rx, state, running, command_ch, audio_ch, result_ch, bm, vad,
                   sample_buffer, current_state, pending, script>>
    /\ UNCHANGED <<appVars, cbVars, ghostVars>>

\* try_recv dropping the command behind the one it returns
AfterTryRecv_skips(ch) == IF Len(ch) >= 2 THEN Tail(Tail(ch)) ELSE Tail(ch)

\* what command_rx.try_recv() leaves in a channel that is not empty: it
\* returns the oldest command
AfterTryRecv(ch) == Tail(ch)

\* a paused worker going on to recv_timeout like any other
AfterPoll_fetches(cur) == "recv"

\* the check on current_state after the commands: a paused worker sleeps and
\* starts the loop over, any other goes on to recv_timeout
AfterPoll(cur) == IF cur = "Paused" THEN "loop" ELSE "recv"

\* top of one loop iteration: at most one command is taken and applied, the
\* state is read, and a paused worker sleeps and starts over
WorkerPoll ==
    /\ pc = "loop"
    /\ running
    /\ LET has == command_ch # <<>>
           r == IF has
                THEN ApplyCommand(Head(command_ch), state, bm, vad)
                ELSE [state |-> state, bm |-> bm, vad |-> vad]
       IN /\ command_ch' = IF has THEN AfterTryRecv(command_ch) ELSE command_ch
          /\ state' = r.state
          /\ bm' = r.bm
          /\ vad' = r.vad
          /\ current_state' = r.state
          /\ pc' = AfterPoll(r.state)
          /\ onset' = IF r.vad.voice_frames = 0 THEN 0 ELSE onset
          /\ last' = IF has
                     THEN [ev |-> "cmd", cmd |-> Head(command_ch), state |-> state,
                           bm |-> bm, vad |-> vad]
                     ELSE NoEvent
          /\ obs' = IF ~(Scripted /\ has) THEN obs
                    ELSE [obs EXCEPT
                            !.mark = IF r.state = "Paused" /\ state # "Paused"
                                     THEN stream_pos ELSE @,
                            !.resumed = IF r.state = "Paused" THEN FALSE
                                        ELSE @ \/ state = "Paused",
                            !.held = IF r.state = "Paused" /\ state = "Recording"
                                     THEN @ \cup {bm.recording[i].id :
                                                     i \in 1..Len(bm.recording)}
                                     ELSE @]
    /\ UNCHANGED <<uiVars, cfg, result_rx, running, audio_ch, result_ch, sample_buffer, pending, script>>
    /\ UNCHANGED <<appVars, cbVars, rec_onset, rec_trig, fin>>

\* audio_rx.recv_timeout returns a chunk, which is appended to sample_buffer
WorkerRecvChunk ==
    /\ pc = "recv"
    /\ audio_ch # <<>>
    /\ sample_buffer' = sample_buffer \o Head(audio_ch)
    /\ audio_ch' = Tail(audio_ch)
    /\ pc' = AfterFrame(sample_buffer', cfg)
    /\ UNCHANGED <<uiVars, cfg, result_rx, state, running, command_ch, result_ch, bm, vad,
                   current_state, pending, script>>
    /\ UNCHANGED <<appVars, cbVars, onset, rec_onset, rec_trig, fin, obs>>
    /\ last' = NoEvent

\* audio_rx.recv_timeout times out on an empty channel
WorkerRecvTimeout ==
    /\ pc = "recv"
    /\ audio_ch = <<>>
    /\ pc' = "loop"
    /\ UNCHANGED <<uiVars, cfg, result_rx, state, running, command_ch, audio_ch, result_ch, bm, vad,
                   sample_buffer, current_state, pending, script>>
    /\ UNCHANGED <<appVars, cbVars, onset, rec_onset, rec_trig, fin, obs>>
    /\ last' = NoEvent

\* one iteration of the inner while: a complete frame is drained and handled
WorkerFrame ==
    /\ pc = "frames"
    /\ LET fg == FrameGrains(cfg)
           frame == SubSeq(sample_buffer, 1, fg)
           p == VadEngine_process(vad, frame)
           r == HandleFrame(current_state, state, bm, p.vad, frame, cfg)
           on == IF r.vad.voice_frames = 0 THEN 0
                 ELSE IF vad.voice_frames = 0 THEN frame[1].id ELSE onset
           k == Len(obs.vlog) + 1
       IN /\ sample_buffer' = SubSeq(sample_buffer, fg + 1, Len(sample_buffer))
          /\ state' = r.state
          /\ bm' = r.bm
          /\ vad' = r.vad
          /\ pending' = r.audio
          /\ pc' = IF r.panicked THEN "panicked"
                   ELSE IF r.outcome = "send" THEN "send"
                   ELSE AfterFrame(sample_buffer', cfg)
          /\ onset' = on
          /\ rec_onset' = IF r.started THEN on
                          ELSE IF r.outcome = "short" THEN 0 ELSE rec_onset
          /\ rec_trig' = IF r.started THEN frame[fg].id
                         ELSE IF r.outcome = "short" THEN 0 ELSE rec_trig
          /\ fin' = IF r.outcome = "short" THEN "short" ELSE fin
          /\ last' = IF r.outcome = "short"
                     THEN [ev |-> "fin", outcome |-> "short"]
                     ELSE NoEvent
          /\ obs' = IF ~Scripted THEN obs
                    ELSE [obs EXCEPT
                            !.vlog = Append(obs.vlog, p.is_voice),
                            !.t_rec = IF r.started /\ obs.t_rec = 0 THEN k ELSE @,
                            !.t_fin = IF r.outcome # "none" /\ obs.t_fin = 0 THEN k ELSE @,
                            !.n_fin = IF r.outcome # "none" THEN @ + 1 ELSE @,
                            !.cut = @ \/ r.cut]
    /\ UNCHANGED <<uiVars, cfg, result_rx, running, command_ch, audio_ch, result_ch, current_state,
                   script>>
    /\ UNCHANGED <<appVars, cbVars>>

\* where the worker goes once result_tx.send has returned, Ok or Err
AfterSend_quit(ok, buf, c) == IF ok THEN AfterFrame(buf, c) ELSE "exited"

AfterSend(ok, buf, c) == AfterFrame(buf, c)

\* the worker handed the sender that new() was given
ResultSender_passed == "_result_tx"

\* the sender new() moves into the worker thread: the sending half of the
\* channel new() makes itself; the _result_tx parameter is not used
ResultSender == "internal_result_tx"

\* the worker waiting in Processing until the utterance is dealt with
StateAfterSend_processing == "Processing"

\* the state finalize_recording stores once the send has returned
StateAfterSend == "Listening"

\* result_tx.send(audio) of finalize_recording returns, and the rest of
\* finalize_recording runs.  send on a bounded crossbeam channel waits while
\* the channel is full and fails at once when the receiver is gone.  The
\* receiver is a field of the controller, which joins the worker before its
\* fields are dropped: a worker started by AlwaysListenController::new always
\* has it.
WorkerSend ==
    /\ pc = "send"
    /\ ~result_rx \/ Len(result_ch) < ResultCapacity
    /\ IF result_rx /\ ResultSender = "internal_result_tx"
       THEN result_ch' = Append(result_ch, pending) /\ UNCHANGED result_out
       ELSE IF result_rx
            THEN result_out' = Append(result_out, pending) /\ UNCHANGED result_ch
            ELSE UNCHANGED <<result_ch, result_out>>
    /\ pending' = <<>>
    /\ state' = StateAfterSend
    /\ bm' = AudioBufferManager_reset(bm)
    /\ vad' = VadEngine_reset(vad)
    /\ pc' = AfterSend(result_rx, sample_buffer, cfg)
    /\ onset' = 0
    /\ rec_onset' = 0
    /\ rec_trig' = 0
    /\ fin' = IF result_rx THEN "sent" ELSE "failed"
    /\ obs' = IF Scripted /\ result_rx THEN [obs EXCEPT !.n_sent = @ + 1] ELSE obs
    /\ last' = [ev |-> "fin", outcome |-> fin']
    /\ UNCHANGED <<mode, always_listen_active, events, jobs, nkeys,
                   always_listen_stream_running>>
    /\ UNCHANGED <<cfg, result_rx, running, command_ch, audio_ch, sample_buffer,
                   current_state, script>>
    /\ UNCHANGED <<appVars, cbVars>>

(***************************************************************************)
(* The controller's owner thread                                           *)
(***************************************************************************)
Commands == {"Start", "Stop", "Pause", "Resume"}

\* start(), stop(), pause(), resume(): command_tx.send queues the command,
\* fails at once when the receiver is gone, and waits when the channel is
\* full; limit bounds the number of calls
AppCallUpTo(cmd, limit) ==
    /\ app_pc = "idle"
    /\ ncmds < limit
    /\ ncmds' = ncmds + 1
    /\ IF WorkerGone
       THEN UNCHANGED <<command_ch, app_pc, app_cmd>>
       ELSE IF Len(command_ch) < CommandCapacity
            THEN command_ch' = Append(command_ch, cmd) /\ UNCHANGED <<app_pc, app_cmd>>
            ELSE app_pc' = "send" /\ app_cmd' = cmd /\ UNCHANGED command_ch
    /\ UNCHANGED <<uiVars, cfg, result_rx, running, audio_ch, result_ch, script>>
    /\ UNCHANGED <<workerVars, cbVars, ghostVars>>

AppCall(cmd) == AppCallUpTo(cmd, MaxCommands)

\* a command_tx.send that waited returns: there is room, or the receiver is gone
AppSend ==
    /\ app_pc \in {"send", "drop_send"}
    /\ WorkerGone \/ Len(command_ch) < CommandCapacity
    /\ command_ch' = IF WorkerGone THEN command_ch ELSE Append(command_ch, app_cmd)
    /\ app_pc' = IF app_pc = "send" THEN "idle" ELSE "join"
    /\ UNCHANGED <<uiVars, cfg, result_rx, running, audio_ch, result_ch, script, app_cmd, ncmds>>
    /\ UNCHANGED <<workerVars, cbVars, ghostVars>>

\* try_recv_result() takes the oldest utterance
AppTryRecvResult ==
    /\ app_pc = "idle"
    /\ result_ch # <<>>
    /\ result_ch' = Tail(result_ch)
    /\ UNCHANGED <<uiVars, cfg, result_rx, running, command_ch, audio_ch, script>>
    /\ UNCHANGED <<workerVars, appVars, cbVars, ghostVars>>

\* recv_result_timeout() takes the oldest utterance of the same channel; with
\* none there at the timeout it returns None
AppRecvResultTimeout ==
    /\ app_pc = "idle"
    /\ result_ch # <<>>
    /\ result_ch' = Tail(result_ch)
    /\ UNCHANGED <<uiVars, cfg, result_rx, running, command_ch, audio_ch, script>>
    /\ UNCHANGED <<workerVars, appVars, cbVars, ghostVars>>

\* Drop: running.store(false), then command_tx.send(Stop), then the join
AppDrop ==
    /\ app_pc = "idle"
    /\ running' = FALSE
    /\ IF WorkerGone
       THEN app_pc' = "join" /\ UNCHANGED <<command_ch, app_cmd>>
       ELSE IF Len(command_ch) < CommandCapacity
            THEN /\ command_ch' = Append(command_ch, "Stop")
                 /\ app_pc' = "join"
                 /\ UNCHANGED app_cmd
            ELSE app_pc' = "drop_send" /\ app_cmd' = "Stop" /\ UNCHANGED command_ch
    /\ UNCHANGED <<uiVars, cfg, result_rx, audio_ch, result_ch, script, ncmds>>
    /\ UNCHANGED <<workerVars, cbVars, ghostVars>>

\* Drop: handle.join() returns once the worker thread has ended
AppJoin ==
    /\ app_pc = "join"
    /\ WorkerGone
    /\ app_pc' = "dropped"
    /\ UNCHANGED <<uiVars, cfg, result_rx, running, command_ch, audio_ch, result_ch, script, app_cmd, ncmds>>
    /\ UNCHANGED <<workerVars, cbVars, ghostVars>>

(***************************************************************************)
(* The capture callback of create_always_listen_stream                     *)
(***************************************************************************)
\* The device delivers the grains of chunk (already mono, at 16 kHz) and the
\* callback calls audio_tx.send, which queues the chunk, fails at once when
\* the receiver is gone, and waits when the channel is full.  limit bounds
\* the stream and ahead the chunks the device delivers while earlier ones are
\* still queued.
CaptureChunk(chunk, limit, ahead) ==
    /\ cb_pc = "idle"
    /\ stream_pos + Len(chunk) <= limit
    /\ Len(audio_ch) < ahead
    /\ stream_pos' = stream_pos + Len(chunk)
    /\ IF WorkerGone
       THEN UNCHANGED <<audio_ch, cb_pc, cb_chunk>>
       ELSE IF Len(audio_ch) < AudioCapacity
            THEN /\ audio_ch' = Append(audio_ch, chunk)
                 /\ UNCHANGED <<cb_pc, cb_chunk>>
            ELSE /\ cb_pc' = "send"
                 /\ cb_chunk' = chunk
                 /\ UNCHANGED audio_ch
    /\ UNCHANGED <<uiVars, cfg, result_rx, running, command_ch, result_ch, script>>
    /\ UNCHANGED <<workerVars, appVars, ghostVars>>

\* a chunk of n grains of amplitude a
CaptureCallback(n, a, limit, ahead) ==
    CaptureChunk(Chunk(stream_pos + 1, n, a), limit, ahead)

\* an audio_tx.send that waited returns: there is room, or the receiver is gone
CaptureSend ==
    /\ cb_pc = "send"
    /\ WorkerGone \/ Len(audio_ch) < AudioCapacity
    /\ audio_ch' = IF WorkerGone THEN audio_ch ELSE Append(audio_ch, cb_chunk)
    /\ cb_chunk' = <<>>
    /\ cb_pc' = "idle"
    /\ UNCHANGED <<uiVars, cfg, result_rx, running, command_ch, result_ch, script, stream_pos>>
    /\ UNCHANGED <<workerVars, appVars, ghostVars>>

(***************************************************************************)
(* Specifications                                                          *)
(***************************************************************************)
\* no transcription thread is running
TargetStatuses == {"Idle", "AlwaysListening"}
NoJobs == [s \in TargetStatuses |-> 0]

NoScript == [lead |-> 0, tone |-> 0, amp |-> 0]

\* vlog: is_voice of each frame processed; t_rec, t_fin: the number of the
\* frame that made the first Listening -> Recording transition and the first
\* finalize_recording call (0: none yet); n_fin, n_sent: finalize_recording
\* calls and utterances sent; cut: some call came from the max-duration check;
\* mark: the stream position when the state last became Paused (the grains
\* handed to audio_tx.send by then); resumed: Paused -> Listening has happened
\* since; held: the stream positions of the grains that were in the recording
\* when a Stop or Pause was applied while Recording
NoObs == [vlog |-> <<>>, t_rec |-> 0, t_fin |-> 0, n_fin |-> 0, n_sent |-> 0,
          cut |-> FALSE, mark |-> 0, resumed |-> FALSE, held |-> {}]

\* processing_loop about to start with config c, empty channels and, when rx,
\* a live receiver for its result sender
InitRun(c, s, rx) ==
    /\ cfg = c
    /\ script = s
    /\ state = "Listening"
    /\ running = TRUE
    /\ command_ch = <<>>
    /\ audio_ch = <<>>
    /\ result_ch = <<>>
    /\ bm = AudioBufferManager_new(SampleRate, c.pre_roll_duration_ms)
    /\ vad = VadEngine_new(c.vad_threshold, c.frame_samples)
    /\ sample_buffer = <<>>
    /\ current_state = "Listening"
    /\ pc = "loop"
    /\ pending = <<>>
    /\ app_pc = "idle"
    /\ app_cmd = "Stop"
    /\ cb_pc = "idle"
    /\ cb_chunk = <<>>
    /\ stream_pos = 0
    /\ ncmds = 0
    /\ onset = 0
    /\ rec_onset = 0
    /\ rec_trig = 0
    /\ fin = "none"
    /\ obs = NoObs
    /\ result_rx = rx
    /\ last = NoEvent
    /\ mode = "Idle"
    /\ always_listen_active = FALSE
    /\ events = <<>>
    /\ jobs = NoJobs
    /\ nkeys = 0
    /\ always_listen_stream_running = FALSE
    /\ result_out = <<>>

\* the state AlwaysListenController::new leaves, the worker about to start
InitWith(c, s) == InitRun(c, s, TRUE)

\* the worker thread while the controller lives
Worker ==
    \/ WorkerPoll
    \/ WorkerRecvChunk
    \/ WorkerRecvTimeout
    \/ WorkerFrame
    \/ WorkerSend

\* Free input: chunks of half a frame, one frame or more of silent or loud
\* audio, the start() and stop() calls the application makes, results taken at
\* any time.
Init == \E c \in {ConfigA, ConfigB} : InitWith(c, NoScript)

Next ==
    \/ Worker
    \/ \E cmd \in {"Start", "Stop"} : AppCall(cmd)
    \/ AppTryRecvResult
    \/ \E n \in {1, 2, MaxChunkGrains}, a \in {0, 60} :
           CaptureCallback(n, a, MaxStreamGrains, MaxQueued)

Spec == Init /\ [][Next]_vars

(***************************************************************************)
(* Scripted input: silence, then a tone, then silence, one frame per chunk *)
(***************************************************************************)
\* amplitude of the k-th frame of the script sc
ScriptAmp(sc, k) ==
    IF k > sc.lead /\ k <= sc.lead + sc.tone THEN sc.amp ELSE 0

ScriptFrames(sc) == sc.lead + sc.tone + MaxTail

\* the callback delivers the next frame of the script
ToneCallback ==
    CaptureCallback(FrameGrains(cfg),
                    ScriptAmp(script, stream_pos \div FrameGrains(cfg) + 1),
                    ScriptFrames(script) * FrameGrains(cfg),
                    MaxQueued)

InitTone ==
    \E c \in {ConfigA, ConfigT}, l \in 0..MaxLead, t \in 1..MaxTone, a \in ToneAmps :
        InitWith(c, [lead |-> l, tone |-> t, amp |-> a])

NextTone ==
    \/ Worker
    \/ ToneCallback

SpecTone == InitTone /\ [][NextTone]_vars

(***************************************************************************)
(* The same scripted stream cut into chunks of any size from one grain to  *)
(* MaxChunkGrains, beside the run of a worker that gets it frame by frame  *)
(***************************************************************************)
\* n grains of the script sc from stream position first on, each with the
\* amplitude of the frame of c.frame_samples samples it belongs to
ScriptChunk(sc, c, first, n) ==
    [i \in 1..n |->
        [id |-> first + i - 1,
         amp |-> ScriptAmp(sc, (first + i - 2) \div FrameGrains(c) + 1)]]

ChunkedCallback(n) ==
    CaptureChunk(ScriptChunk(script, cfg, stream_pos + 1, n),
                 ScriptFrames(script) * FrameGrains(cfg),
                 MaxQueued)

\* processing_loop on the first k frames of the script sc, one frame per
\* chunk: every frame is matched on the state read at the top of its own loop
\* iteration; out are the utterances sent
RECURSIVE FrameByFrame(_, _, _)
FrameByFrame(c, sc, k) ==
    IF k = 0
    THEN [state |-> "Listening",
          bm |-> AudioBufferManager_new(SampleRate, c.pre_roll_duration_ms),
          vad |-> VadEngine_new(c.vad_threshold, c.frame_samples),
          out |-> <<>>]
    ELSE LET prev == FrameByFrame(c, sc, k - 1)
             frame == ScriptChunk(sc, c, (k - 1) * FrameGrains(c) + 1, FrameGrains(c))
             p == VadEngine_process(prev.vad, frame)
             r == HandleFrame(prev.state, prev.state, prev.bm, p.vad, frame, c)
         IN IF r.outcome = "send"
            THEN [state |-> "Listening",
                  bm |-> AudioBufferManager_reset(r.bm),
                  vad |-> VadEngine_reset(r.vad),
                  out |-> Append(prev.out, r.audio)]
            ELSE [state |-> r.state, bm |-> r.bm, vad |-> r.vad, out |-> prev.out]

InitChunks ==
    \E l \in 0..MaxLead, t \in 1..MaxTone :
        InitWith(ConfigA, [lead |-> l, tone |-> t, amp |-> MaxAmp])

NextChunks ==
    \/ Worker
    \/ \E n \in 1..MaxChunkGrains : ChunkedCallback(n)

SpecChunks == InitChunks /\ [][NextChunks]_vars

(***************************************************************************)
(* A pause in the scripted stream: silence, a tone and MaxPauseTail frames *)
(* of silence arrive as chunks of half a frame, a frame or MaxChunkGrains   *)
(* grains while the owner pauses and resumes the worker at any time        *)
(***************************************************************************)
MaxPauseTail == 4

PauseCallback(n) ==
    CaptureChunk(ScriptChunk(script, cfg, stream_pos + 1, n),
                 (script.lead + script.tone + MaxPauseTail) * FrameGrains(cfg),
                 MaxQueued)

InitPause ==
    \E l \in 0..1 :
        InitWith(ConfigT, [lead |-> l, tone |-> MaxTone, amp |-> 60])

\* the owner's calls alternate: stop() or pause(), then start() or resume()
NextPause ==
    \/ Worker
    \/ \E cmd \in (IF ncmds % 2 = 0 THEN {"Stop", "Pause"} ELSE {"Start", "Resume"}) :
           AppCall(cmd)
    \/ \E n \in {1, FrameGrains(cfg), MaxChunkGrains} : PauseCallback(n)

SpecPause == InitPause /\ [][NextPause]_vars

(***************************************************************************)
(* All four commands, sent at any time while one-frame chunks of loud or   *)
(* silent audio arrive                                                     *)
(***************************************************************************)
InitCommands == InitWith(ConfigB, NoScript)

NextCommands ==
    \/ Worker
    \/ \E cmd \in Commands : AppCall(cmd)
    \/ \E a \in {0, 60} :
           CaptureCallback(FrameGrains(cfg), a, MaxStreamGrains, MaxQueued)

SpecCommands == InitCommands /\ [][NextCommands]_vars

(***************************************************************************)
(* processing_loop given a result sender whose receiver may be gone, fed   *)
(* chunks of one frame or more while start() and stop() are called         *)
(***************************************************************************)
InitOrphan == \E rx \in BOOLEAN : InitRun(ConfigB, NoScript, rx)

NextOrphan ==
    \/ Worker
    \/ \E cmd \in {"Start", "Stop"} : AppCall(cmd)
    \/ AppTryRecvResult
    \/ \E n \in {FrameGrains(cfg), MaxChunkGrains}, a \in {0, 60} :
           CaptureCallback(n, a, MaxStreamGrains, MaxQueued)

SpecOrphan == InitOrphan /\ [][NextOrphan]_vars

(***************************************************************************)
(* Unit run of an AudioBufferManager: any calls of push_to_pre_roll,       *)
(* start_recording, push_to_recording, finalize and reset on a manager of  *)
(* 0 to MaxPreRollGrains grains.  bm is the manager, pending the value the *)
(* latest start_recording or finalize returned, stream_pos the number of   *)
(* grains handed in so far, and last keeps what was pushed to the ring     *)
(* since construction or reset (pushed) and what the recording must hold   *)
(* (expect).                                                               *)
(***************************************************************************)
Pushed == IF last.ev = "none" THEN <<>> ELSE last.pushed
Expect == IF last.ev = "none" THEN <<>> ELSE last.expect

BufferRest ==
    UNCHANGED <<uiVars, cfg, result_rx, state, running, command_ch, audio_ch, result_ch,
                vad, sample_buffer, current_state, app_pc, app_cmd, cb_pc,
                cb_chunk, ncmds, onset, rec_onset, rec_trig, fin, script, obs>>

\* push_to_pre_roll(samples); the first write panics in a ring of capacity 0
BufPushPreRoll(n) ==
    /\ pc = "loop"
    /\ stream_pos + n <= MaxStreamGrains
    /\ LET samples == Chunk(stream_pos + 1, n, 60)
       IN IF PreRollIndexPanics(bm, samples)
          THEN pc' = "panicked" /\ UNCHANGED <<bm, last>>
          ELSE /\ bm' = push_to_pre_roll(bm, samples)
               /\ last' = [ev |-> "push_to_pre_roll", pushed |-> Pushed \o samples,
                           expect |-> Expect]
               /\ pc' = pc
    /\ stream_pos' = stream_pos + n
    /\ UNCHANGED pending
    /\ BufferRest

\* start_recording(): the value returned is a clone of the seeded recording
BufStartRecording ==
    /\ pc = "loop"
    /\ bm' = start_recording(bm)
    /\ pending' = bm'.recording
    /\ last' = [ev |-> "start_recording", pushed |-> Pushed, expect |-> pending']
    /\ UNCHANGED <<pc, stream_pos>>
    /\ BufferRest

BufPushRecording(n) ==
    /\ pc = "loop"
    /\ stream_pos + n <= MaxStreamGrains
    /\ LET samples == Chunk(stream_pos + 1, n, 60)
       IN /\ bm' = push_to_recording(bm, samples)
          /\ last' = [ev |-> "push_to_recording", pushed |-> Pushed,
                      expect |-> Expect \o samples]
    /\ stream_pos' = stream_pos + n
    /\ UNCHANGED <<pc, pending>>
    /\ BufferRest

\* finalize(): last.took is what the recording had to hold when it was called
BufFinalize ==
    /\ pc = "loop"
    /\ pending' = bm.recording
    /\ bm' = finalize(bm)
    /\ last' = [ev |-> "finalize", pushed |-> Pushed, expect |-> <<>>,
                took |-> Expect]
    /\ UNCHANGED <<pc, stream_pos>>
    /\ BufferRest

BufReset ==
    /\ pc = "loop"
    /\ bm' = AudioBufferManager_reset(bm)
    /\ last' = [ev |-> "reset", pushed |-> <<>>, expect |-> <<>>]
    /\ UNCHANGED <<pc, stream_pos, pending>>
    /\ BufferRest

InitBuffer ==
    \E k \in 0..MaxPreRollGrains :
        InitRun([ConfigB EXCEPT !.pre_roll_duration_ms =
                                   (k * GrainSamples * 1000) \div SampleRate],
                NoScript, TRUE)

NextBuffer ==
    \/ \E n \in 1..MaxChunkGrains : BufPushPreRoll(n)
    \/ BufStartRecording
    \/ \E n \in 1..MaxChunkGrains : BufPushRecording(n)
    \/ BufFinalize
    \/ BufReset

SpecBuffer == InitBuffer /\ [][NextBuffer]_vars

(***************************************************************************)
(* Unit run of a VadEngine: any sequence of loud and silent frames given   *)
(* to process, frames that are too short, and reset.  vad is the engine,   *)
(* stream_pos the number of grains handed in so far, and last keeps what   *)
(* process returned (is_voice, prob), the engine it was called on (before) *)
(* and the number of frames in a row, the latest included, that it has     *)
(* classified as silent (run).                                             *)
(***************************************************************************)
SilentRun == IF last.ev \in {"process", "process_short"} THEN last.run ELSE 0

VadRest ==
    UNCHANGED <<uiVars, cfg, result_rx, state, running, command_ch, audio_ch, result_ch,
                bm, sample_buffer, current_state, pc, pending, app_pc, app_cmd,
                cb_pc, cb_chunk, ncmds, onset, rec_onset, rec_trig, fin, script,
                obs>>

VadProcess(a) ==
    /\ stream_pos + FrameGrains(cfg) <= MaxVadFrames * FrameGrains(cfg)
    /\ LET frame == Chunk(stream_pos + 1, FrameGrains(cfg), a)
           p == VadEngine_process(vad, frame)
       IN /\ vad' = p.vad
          /\ last' = [ev |-> "process", is_voice |-> p.is_voice, before |-> vad,
                      run |-> IF p.is_voice THEN 0 ELSE SilentRun + 1]
    /\ stream_pos' = stream_pos + FrameGrains(cfg)
    /\ VadRest

\* process on a frame of n grains, fewer than frame_size samples
VadProcessShort(n, a) ==
    /\ n < FrameGrains(cfg)
    /\ LET p == VadEngine_process(vad, Chunk(stream_pos + 1, n, a))
       IN /\ vad' = p.vad
          /\ last' = [ev |-> "process_short", is_voice |-> p.is_voice,
                      prob |-> p.prob, before |-> vad, run |-> SilentRun]
    /\ UNCHANGED stream_pos
    /\ VadRest

VadUnitReset ==
    /\ vad' = VadEngine_reset(vad)
    /\ last' = [ev |-> "reset"]
    /\ UNCHANGED stream_pos
    /\ VadRest

InitVad == InitRun(ConfigB, NoScript, TRUE)

NextVad ==
    \/ \E a \in {0, 60} : VadProcess(a)
    \/ \E n \in 0..MaxChunkGrains, a \in {0, 60} : VadProcessShort(n, a)
    \/ VadUnitReset

SpecVad == InitVad /\ [][NextVad]_vars

(***************************************************************************)
(* The conversions of the capture callback (audio.rs): convert_to_mono and *)
(* resample on sequences of samples, a sample being an integer number of   *)
(* thousandths.  A unit run takes one input (last: the interleaved data,   *)
(* the channel count and the two rates), applies convert_to_mono, resample *)
(* or one after the other as the callback does, and leaves the output in   *)
(* cb_chunk.                                                               *)
(***************************************************************************)
MaxSamples == 4
MaxChannels == 3
Levels == {-600, 0, 900}
Rates == {8000, SampleRate, 44100, 48000}

RECURSIVE SumSamples(_)
SumSamples(s) == IF s = <<>> THEN 0 ELSE Head(s) + SumSamples(Tail(s))

\* data.chunks(channels): the k-th chunk, the last one possibly shorter
ChunkOf(data, channels, k) ==
    SubSeq(data, (k - 1) * channels + 1,
           IF k * channels <= Len(data) THEN k * channels ELSE Len(data))

\* every frame represented by its first channel
convert_to_mono_first(data, channels) ==
    IF channels = 1
    THEN data
    ELSE [k \in 1..((Len(data) + channels - 1) \div channels) |->
              Head(ChunkOf(data, channels, k))]

convert_to_mono(data, channels) ==
    IF channels = 1
    THEN data
    ELSE [k \in 1..((Len(data) + channels - 1) \div channels) |->
              SumSamples(ChunkOf(data, channels, k)) \div channels]

\* (data.len() as f64 * ratio) as usize, ratio = to_rate / from_rate: the
\* cast drops the fraction
new_len(n, from_rate, to_rate) == (n * to_rate) \div from_rate

\* the sample pushed for output index i (from 0): src_idx = i / ratio,
\* idx its integer part and frac = r / to_rate its fraction
Interpolate(data, i, from_rate, to_rate) ==
    LET idx == (i * from_rate) \div to_rate
        r == (i * from_rate) % to_rate
    IN IF idx + 1 < Len(data)
       THEN (data[idx + 1] * (to_rate - r) + data[idx + 2] * r) \div to_rate
       ELSE IF idx < Len(data) THEN data[idx + 1] ELSE 0

\* equal rates going through the loop with one sample less
resample_one_less(data, from_rate, to_rate) ==
    [i \in 1..(IF from_rate = to_rate /\ data # <<>>
               THEN Len(data) - 1
               ELSE new_len(Len(data), from_rate, to_rate)) |->
         Interpolate(data, i - 1, from_rate, to_rate)]

resample(data, from_rate, to_rate) ==
    IF from_rate = to_rate
    THEN data
    ELSE [i \in 1..new_len(Len(data), from_rate, to_rate) |->
              Interpolate(data, i - 1, from_rate, to_rate)]

SampleSeqs == UNION {[1..n -> Levels] : n \in 0..MaxSamples}

ConvertRest ==
    UNCHANGED <<uiVars, cfg, result_rx, state, running, command_ch, audio_ch, result_ch,
                bm, vad, sample_buffer, current_state, pc, pending, app_pc,
                app_cmd, cb_pc, stream_pos, ncmds, onset, rec_onset, rec_trig,
                fin, script, obs>>

\* convert_to_mono on the input
ConvertToMono ==
    /\ last.ev = "input"
    /\ cb_chunk' = convert_to_mono(last.data, last.channels)
    /\ last' = [last EXCEPT !.ev = "mono"]
    /\ ConvertRest

\* resample on the input, or on what convert_to_mono returned
Resample ==
    /\ last.ev \in {"input", "mono"}
    /\ LET x == IF last.ev = "input" THEN last.data ELSE cb_chunk
       IN /\ cb_chunk' = resample(x, last.from_rate, last.to_rate)
          /\ last' = [last EXCEPT !.ev = "resample", !.data = x]
    /\ ConvertRest

InitConvert ==
    /\ \E data \in SampleSeqs, channels \in 1..MaxChannels,
          from_rate \in Rates, to_rate \in Rates :
           last = [ev |-> "input", data |-> data, channels |-> channels,
                   from_rate |-> from_rate, to_rate |-> to_rate]
    /\ cfg = ConfigB
    /\ script = NoScript
    /\ state = "Listening"
    /\ running = TRUE
    /\ command_ch = <<>>
    /\ audio_ch = <<>>
    /\ result_ch = <<>>
    /\ bm = AudioBufferManager_new(SampleRate, cfg.pre_roll_duration_ms)
    /\ vad = VadEngine_new(cfg.vad_threshold, cfg.frame_samples)
    /\ sample_buffer = <<>>
    /\ current_state = "Listening"
    /\ pc = "loop"
    /\ pending = <<>>
    /\ app_pc = "idle"
    /\ app_cmd = "Stop"
    /\ cb_pc = "idle"
    /\ cb_chunk = <<>>
    /\ stream_pos = 0
    /\ ncmds = 0
    /\ onset = 0
    /\ rec_onset = 0
    /\ rec_trig = 0
    /\ fin = "none"
    /\ obs = NoObs
    /\ result_rx = TRUE
    /\ mode = "Idle"
    /\ always_listen_active = FALSE
    /\ events = <<>>
    /\ jobs = NoJobs
    /\ nkeys = 0
    /\ always_listen_stream_running = FALSE
    /\ result_out = <<>>

NextConvert ==
    \/ ConvertToMono
    \/ Resample

SpecConvert == InitConvert /\ [][NextConvert]_vars

(***************************************************************************)
(* Utterances nobody takes: loud and silent frames in turn, one frame per  *)
(* chunk, and an owner that takes results or not and drops the controller  *)
(* at any time                                                             *)
(***************************************************************************)
\* the callback delivers the next frame: odd frames loud, even frames silent
BurstCallback ==
    CaptureCallback(FrameGrains(cfg),
                    IF (stream_pos \div FrameGrains(cfg)) % 2 = 0 THEN 60 ELSE 0,
                    MaxBurstFrames * FrameGrains(cfg),
                    MaxQueued)

InitResultFull == InitWith(ConfigB, NoScript)

NextResultFull ==
    \/ Worker
    \/ WorkerExit
    \/ BurstCallback
    \/ AppTryRecvResult
    \/ AppRecvResultTimeout
    \/ AppDrop
    \/ AppJoin

SpecResultFull == InitResultFull /\ [][NextResultFull]_vars

\* The same input to an owner that calls start() and stop() and takes no
\* result, the worker thread scheduled fairly: it takes a step whenever it
\* can take one.
NextStarve ==
    \/ Worker
    \/ BurstCallback
    \/ \E cmd \in {"Start", "Stop"} : AppCall(cmd)

SpecStarve == InitResultFull /\ [][NextStarve]_vars /\ WF_vars(Worker)

(***************************************************************************)
(* Commands faster than the worker takes them: start() and stop() calls    *)
(* and no audio                                                            *)
(***************************************************************************)
InitCommandFull == InitWith(ConfigB, NoScript)

\* without audio the worker only polls and times out
NextCommandFull ==
    \/ WorkerPoll
    \/ WorkerRecvTimeout
    \/ \E cmd \in {"Start", "Stop"} : AppCallUpTo(cmd, MaxFloodCommands)
    \/ AppSend

SpecCommandFull == InitCommandFull /\ [][NextCommandFull]_vars

(***************************************************************************)
(* Audio nobody fetches: the owner pauses the worker with stop() while the *)
(* stream keeps delivering one-frame chunks of silence, and resumes it     *)
(* with start()                                                            *)
(***************************************************************************)
\* a worker that fetches keeps up with the device, a paused one fetches
\* nothing while the device goes on delivering
FloodCallback ==
    CaptureCallback(FrameGrains(cfg), 0, MaxFloodChunks * FrameGrains(cfg),
                    IF state = "Paused" THEN AudioCapacity + 1 ELSE MaxQueued)

InitAudioFull == InitWith(ConfigA, NoScript)

\* silence starts no recording, so the worker never reaches the result send
NextAudioFull ==
    \/ WorkerPoll
    \/ WorkerRecvChunk
    \/ WorkerRecvTimeout
    \/ WorkerFrame
    \/ \E cmd \in {"Start", "Stop"} : AppCall(cmd)
    \/ FloodCallback
    \/ CaptureSend

SpecAudioFull == InitAudioFull /\ [][NextAudioFull]_vars

(***************************************************************************)
(* Properties of the conversions (SpecConvert)                             *)
(***************************************************************************)
\* a / b rounded to the nearest integer, halves up (a >= 0, b > 0)
Round(a, b) == (2 * a + b) \div (2 * b)

\* C23: resample of N samples from rate R1 to a different rate R2 returns
\* exactly round(N * R2 / R1) samples.
C23_RoundedLength ==
    (last.ev = "resample" /\ last.from_rate # last.to_rate) =>
        Len(cb_chunk) = Round(Len(last.data) * last.to_rate, last.from_rate)

\* C24: resample(x, r, r) returns x: same length, same samples.
C24_SameRateIdentity ==
    (last.ev = "resample" /\ last.from_rate = last.to_rate) =>
        cb_chunk = last.data

\* C24 witness: resample has returned for equal rates and an input of
\* MaxSamples samples that are not all the same
C24_Witness ==
    /\ last.ev = "resample" /\ last.from_rate = last.to_rate
    /\ Len(last.data) = MaxSamples
    /\ \E i, j \in 1..Len(last.data) : last.data[i] # last.data[j]
    /\ cb_chunk = last.data

\* C25: convert_to_mono with c >= 2 channels on k complete frames returns k
\* samples, the i-th the arithmetic mean of the c samples of frame i (to the
\* resolution of a sample: less than one thousandth off); with c = 1 it
\* returns the input.
C25_MonoIsMean ==
    last.ev = "mono" =>
        /\ last.channels = 1 => cb_chunk = last.data
        /\ (last.channels >= 2 /\ Len(last.data) % last.channels = 0) =>
               /\ Len(cb_chunk) = Len(last.data) \div last.channels
               /\ \A i \in 1..Len(cb_chunk) :
                      LET total == SumSamples(SubSeq(last.data,
                                                     (i - 1) * last.channels + 1,
                                                     i * last.channels))
                          d == last.channels * cb_chunk[i] - total
                      IN d > -last.channels /\ d < last.channels

\* C25 witness: convert_to_mono has returned for two or more complete frames
\* of two or more channels whose samples differ within a frame
C25_Witness ==
    /\ last.ev = "mono" /\ last.channels >= 2
    /\ Len(last.data) = 2 * last.channels
    /\ last.data[1] # last.data[2]
    /\ Len(cb_chunk) = 2

(***************************************************************************)
(* Properties of the emitted utterances (Spec)                             *)
(***************************************************************************)
\* C26: a frame about to be drained is handled by the row of the state the
\* previous frame left: the state the match is made on is the shared state.
C26_FrameRowFollowsState == pc = "frames" => current_state = state

\* C33: a frame drained while the state is Listening is written to the
\* pre-roll ring, and the recording changes only if that frame starts a
\* recording; a frame drained while the state is Recording is appended to the
\* recording (which finalize_recording may take in the same step) and the
\* pre-roll ring keeps its contents unless finalize_recording resets it.
C33_FrameEffects ==
    [][(pc = "frames" /\ sample_buffer' # sample_buffer) =>
          LET frame == SubSeq(sample_buffer, 1, FrameGrains(cfg))
              pushed == push_to_pre_roll(bm, frame)
              finalized == pc' = "send" \/ last'.ev = "fin"
          IN /\ state = "Listening" =>
                    /\ bm'.pre_roll = pushed.pre_roll
                    /\ bm'.pre_roll_pos = pushed.pre_roll_pos
                    /\ bm'.recording # bm.recording => state' = "Recording"
             /\ state = "Recording" =>
                    /\ IF finalized
                       THEN pc' = "send" => pending' = bm.recording \o frame
                       ELSE bm'.recording = bm.recording \o frame
                    /\ ~finalized => bm'.pre_roll = bm.pre_roll]_vars

\* C28: whenever the shared state is Listening and the worker is at the top
\* of a loop iteration, the recording buffer is empty.
C28_ListeningMeansNoRecording ==
    (state = "Listening" /\ pc = "loop") => bm.recording = <<>>

\* C4: every value placed on the result channel, and every recording that
\* finalize_recording hands to send, has at least 1600 samples; a recording
\* shorter than that is never sent.
C4_MinUtteranceLength ==
    /\ \A i \in 1..Len(result_ch) : Samples(result_ch[i]) >= MinUtteranceSamples
    /\ pc = "send" => Samples(pending) >= MinUtteranceSamples

\* C4 witness: a finalize discarded a short recording while an utterance sent
\* before it waits on the result channel
C4_Witness == fin = "short" /\ result_ch # <<>>

\* C5: an utterance about to be sent holds every grain from the first voice
\* frame counted in the voice_frames run that started the recording up to the
\* frame that started it.
C5_OnsetInUtterance ==
    (pc = "send" /\ rec_onset > 0) =>
        \A g \in rec_onset..rec_trig :
            \E i \in 1..Len(pending) : pending[i].id = g

\* C9: no utterance on the result channel is longer than max_utterance_seconds.
C9_MaxUtteranceLength ==
    \A i \in 1..Len(result_ch) :
        Samples(result_ch[i]) * 1000 <= cfg.max_utterance_ms * SampleRate

\* C10: every utterance on the result channel is a contiguous slice of the
\* captured stream: each grain is the successor of the one before it.
C10_ContiguousSlice ==
    \A i \in 1..Len(result_ch) :
        \A j \in 1..(Len(result_ch[i]) - 1) :
            result_ch[i][j + 1].id = result_ch[i][j].id + 1

(***************************************************************************)
(* Commands (SpecCommands)                                                 *)
(***************************************************************************)
\* the state the buffers and the VAD are in after reset()
BuffersReset(b) ==
    /\ b.pre_roll_pos = 0
    /\ ~b.pre_roll_full
    /\ \A i \in 1..Len(b.pre_roll) : b.pre_roll[i] = Zero
    /\ b.recording = <<>>

VadReset(v) ==
    v.voice_frames = 0 /\ v.silence_frames = 0 /\ v.smoothed_energy = 0

\* C22: the shared state is never Detecting, and neither is the copy of it
\* the worker handles frames by.
C22_NeverDetecting == state # "Detecting" /\ current_state # "Detecting"

\* C22 witness: an utterance has been sent, a new recording has started, and
\* a command has just been applied while Recording
C22_Witness ==
    /\ fin = "sent"
    /\ last.ev = "cmd" /\ last.state = "Recording"
    /\ state \in {"Recording", "Paused"}

\* C31: while the state is Paused no step takes a chunk from the audio
\* channel or changes the accumulation buffer, and the VAD and the buffer
\* manager change only in the step that applies a Start or Resume command.
C31_PausedWorkerIdle ==
    [][state = "Paused" =>
          /\ Len(audio_ch') >= Len(audio_ch)
          /\ SubSeq(audio_ch', 1, Len(audio_ch)) = audio_ch
          /\ sample_buffer' = sample_buffer
          /\ (bm' # bm \/ vad' # vad \/ state' # "Paused") =>
                 (last'.ev = "cmd" /\ last'.cmd \in {"Start", "Resume"})]_vars

\* C31 witness: the worker has gone through its loop while Paused, with a
\* chunk waiting in the audio channel and a recording and a voice streak held
C31_Witness ==
    /\ state = "Paused" /\ pc = "loop" /\ last.ev = "none"
    /\ audio_ch # <<>>
    /\ bm.recording # <<>> /\ vad.voice_frames > 0

\* C32: the state is always Listening, Recording or Paused, never Processing,
\* and right after an utterance has been sent it is Listening, whether or not
\* the utterance has been taken from the result channel.
C32_NeverProcessing ==
    /\ state \in {"Listening", "Recording", "Paused"}
    /\ current_state \in {"Listening", "Recording", "Paused"}
    /\ (last.ev = "fin" /\ last.outcome = "sent") => state = "Listening"

\* C32 witness: an utterance has just been sent while an earlier one is still
\* in the result channel, and the state is Listening
C32_Witness ==
    /\ last.ev = "fin" /\ last.outcome = "sent"
    /\ Len(result_ch) >= 2
    /\ state = "Listening"

\* C36: commands are applied in the order sent, each once and at most one per
\* loop iteration: every step leaves the command channel alone, or appends
\* one command behind the waiting ones and leaves the worker alone, or is the
\* top of a loop iteration that takes exactly the oldest command and applies
\* that one.
C36_CommandsInOrder ==
    [][\/ command_ch' = command_ch
       \/ /\ Len(command_ch') = Len(command_ch) + 1
          /\ SubSeq(command_ch', 1, Len(command_ch)) = command_ch
          /\ UNCHANGED workerVars
       \/ /\ command_ch # <<>> /\ pc = "loop"
          /\ command_ch' = Tail(command_ch)
          /\ last'.ev = "cmd" /\ last'.cmd = Head(command_ch)
          /\ state' = IF Head(command_ch) \in {"Stop", "Pause"} THEN "Paused"
                      ELSE IF state = "Paused" THEN "Listening" ELSE state]_vars

\* C36 witness: the worker has applied one command while a different one,
\* sent after it, is still waiting in the channel
C36_Witness ==
    /\ last.ev = "cmd"
    /\ command_ch # <<>>
    /\ (last.cmd \in {"Stop", "Pause"}) # (Head(command_ch) \in {"Stop", "Pause"})

\* C12: right after the worker has applied a Stop or a Pause, the shared
\* state is Paused, whatever it was before.
C12_StopPauses ==
    (last.ev = "cmd" /\ last.cmd \in {"Stop", "Pause"}) => state = "Paused"

\* C12 witness: a Pause was applied while Recording, and the state is Paused
C12_Witness ==
    /\ last.ev = "cmd" /\ last.cmd = "Pause"
    /\ last.state = "Recording"
    /\ state = "Paused"

\* C13: right after a Start or Resume applied while Paused, the state is
\* Listening, the VAD counters and the smoothed energy are 0, the pre-roll
\* ring is empty and zeroed, and the recording buffer is empty.
C13_ResumeResets ==
    (last.ev = "cmd" /\ last.cmd \in {"Start", "Resume"} /\ last.state = "Paused") =>
        (state = "Listening" /\ VadReset(vad) /\ BuffersReset(bm))

\* C13 witness: a Resume was applied while Paused, when the VAD held a voice
\* streak and the buffers held audio
C13_Witness ==
    /\ last.ev = "cmd" /\ last.cmd = "Resume" /\ last.state = "Paused"
    /\ last.vad.voice_frames > 0 /\ last.vad.smoothed_energy > 0
    /\ last.bm.recording # <<>>
    /\ state = "Listening"

\* C14: right after a Start or Resume applied while the state was not
\* Paused, the state, the VAD and the buffers are what they were before.
C14_StartIsNoOp ==
    (last.ev = "cmd" /\ last.cmd \in {"Start", "Resume"} /\ last.state # "Paused") =>
        (state = last.state /\ vad = last.vad /\ bm = last.bm)

\* C14 witness: a Start was applied while Recording, with a voice streak in
\* the VAD and audio in the recording buffer
C14_Witness ==
    /\ last.ev = "cmd" /\ last.cmd = "Start" /\ last.state = "Recording"
    /\ vad.voice_frames > 0
    /\ bm.recording # <<>>

(***************************************************************************)
(* The end of finalize_recording (SpecOrphan)                              *)
(***************************************************************************)
\* C16: a worker whose result sends fail (the receiver is gone) does not
\* terminate: it is never found exited or panicked.
C16_SendFailureNotFatal == ~result_rx => ~WorkerGone

\* C16 witness: after a failed send the worker has processed a later frame
\* and then applied a later command
C16_Witness ==
    /\ ~result_rx /\ fin = "failed"
    /\ vad.voice_frames + vad.silence_frames > 0
    /\ last.ev = "cmd"

\* C17: right after finalize_recording has returned (recording discarded as
\* short, sent, or send failed) the state is Listening, the VAD counters and
\* the smoothed energy are 0, and the pre-roll ring and the recording buffer
\* are reset.
C17_FinalizeResets ==
    last.ev = "fin" =>
        (state = "Listening" /\ VadReset(vad) /\ BuffersReset(bm))

\* C17 witness: a short recording has just been discarded in a run whose
\* earlier send failed
C17_Witness ==
    /\ last.ev = "fin" /\ last.outcome = "short"
    /\ ~result_rx
    /\ state = "Listening"

(***************************************************************************)
(* AudioBufferManager (SpecBuffer)                                         *)
(***************************************************************************)
Min(a, b) == IF a <= b THEN a ELSE b

\* the last n elements of seq
LastOf(seq, n) == SubSeq(seq, Len(seq) - n + 1, Len(seq))

\* C35: right after reset() every field of the manager equals that of a
\* manager newly constructed with the same capacity, so every following
\* sequence of calls, each a function of the fields and its argument, returns
\* the same on both.
C35_ResetIsNew ==
    last.ev = "reset" =>
        bm = AudioBufferManager_new(SampleRate, cfg.pre_roll_duration_ms)

\* C35 witness: reset() has just returned on a manager whose ring had wrapped
\* and which had handed out a recording
C35_Witness ==
    /\ last.ev = "reset"
    /\ bm.pre_roll_capacity > 0
    /\ stream_pos > bm.pre_roll_capacity
    /\ pending # <<>>

\* C34: the capacity of the manager is the one fixed at construction, the
\* write position is inside the ring (0 <= pos < capacity), and no
\* push_to_pre_roll has written outside it, whatever pre_roll_duration_ms is.
C34_PositionInsideRing ==
    /\ bm.pre_roll_capacity =
           AudioBufferManager_new(SampleRate, cfg.pre_roll_duration_ms).pre_roll_capacity
    /\ Len(bm.pre_roll) = bm.pre_roll_capacity
    /\ 0 <= bm.pre_roll_pos /\ bm.pre_roll_pos < bm.pre_roll_capacity
    /\ pc # "panicked"

\* C18: with N samples pushed to the ring since construction or the last
\* reset, start_recording returns the last min(N, capacity) of them, oldest
\* first.
C18_RingReturnsLatest ==
    last.ev = "start_recording" =>
        pending = LastOf(Pushed, Min(Len(Pushed), bm.pre_roll_capacity))

\* C18 witness: start_recording has returned from a ring that was pushed more
\* than its capacity, in several calls, and had wrapped to a slot inside it
C18_Witness ==
    /\ last.ev = "start_recording"
    /\ Len(Pushed) > bm.pre_roll_capacity + 1
    /\ bm.pre_roll_pos > 0
    /\ pending # <<>>

\* C19: the recording buffer is the value the latest start_recording
\* returned followed by everything given to push_to_recording since; finalize
\* returns exactly that and leaves the recording buffer empty.
C19_RecordingAccumulates ==
    /\ last.ev # "none" => bm.recording = last.expect
    /\ last.ev = "finalize" => (pending = last.took /\ bm.recording = <<>>)

\* C19 witness: finalize has returned a recording made of a snapshot and of
\* samples pushed after it
C19_Witness ==
    /\ last.ev = "finalize"
    /\ Len(pending) > Len(Pushed)
    /\ Pushed # <<>>

(***************************************************************************)
(* VadEngine (SpecVad)                                                     *)
(***************************************************************************)
\* C21: process on a frame shorter than frame_size returns (false, 0.0) and
\* leaves voice_frames, silence_frames and smoothed_energy as they were.
C21_ShortFrameRejected ==
    last.ev = "process_short" =>
        /\ ~last.is_voice
        /\ last.prob = 0
        /\ vad.voice_frames = last.before.voice_frames
        /\ vad.silence_frames = last.before.silence_frames
        /\ vad.smoothed_energy = last.before.smoothed_energy

\* C21 witness: a short frame has been rejected by an engine that held a
\* voice count, a silence count and a smoothed energy
C21_Witness ==
    /\ last.ev = "process_short"
    /\ vad.voice_frames > 0 /\ vad.silence_frames > 0 /\ vad.smoothed_energy > 0

\* C20: a frame that process classifies as silent sets voice_frames to 0 when
\* it makes the run of silent frames longer than 10, and leaves voice_frames
\* as it was when the run is 1 to 10 frames long.
C20_Debounce ==
    (last.ev = "process" /\ ~last.is_voice) =>
        vad.voice_frames = IF last.run > 10 THEN 0 ELSE last.before.voice_frames

\* C20 witness: the 11th silent frame in a row has just cleared a voice count
C20_Witness ==
    /\ last.ev = "process" /\ ~last.is_voice
    /\ last.run = 11
    /\ last.before.voice_frames > 0
    /\ vad.voice_frames = 0

(***************************************************************************)
(* Full channels (SpecResultFull, SpecAudioFull)                           *)
(***************************************************************************)
\* C1: the worker never waits in finalize_recording's send: whenever it is
\* at the send, full result channel included, the send can return and the
\* worker can go on to set the state to Listening and reset VAD and buffers.
C1_ResultSendDoesNotBlock == pc = "send" => ENABLED WorkerSend

\* C2: dropping the controller terminates: while Drop waits in the join, the
\* worker thread has ended or can take a further step towards its exit.
C2_DropTerminates ==
    app_pc = "join" => (WorkerGone \/ ENABLED (Worker \/ WorkerExit))

\* C11: every command sent is eventually taken by the worker: whenever
\* commands wait on the command channel, the channel is empty again later.
C11_CommandsTaken == (command_ch # <<>>) ~> (command_ch = <<>>)

\* C15: start(), stop(), pause() and resume() never wait in command_tx.send:
\* whenever the owner thread is at the send, full command channel included,
\* the send can return.
C15_CommandSendDoesNotBlock == app_pc = "send" => ENABLED AppSend

\* C3: the capture callback never waits in audio_tx.send: whenever it is at
\* the send, full audio channel included, the send can return.
C3_CallbackDoesNotBlock == cb_pc = "send" => ENABLED CaptureSend

(***************************************************************************)
(* Properties of scripted runs (SpecTone)                                  *)
(***************************************************************************)
\* the frames of the tone processed so far were all classified as voice, and
\* the tone is at least min_voice_frames frames long
ToneIsVoice ==
    /\ Scripted
    /\ script.tone >= min_voice_frames(cfg)
    /\ \A k \in (script.lead + 1)..(script.lead + script.tone) :
           k <= Len(obs.vlog) => obs.vlog[k]

\* the script has been played to its end and the worker has handled all of it
ScriptDone ==
    /\ Len(obs.vlog) = ScriptFrames(script)
    /\ pc # "send"

\* number of the last frame up to frame k that was classified as voice
RECURSIVE LastVoice(_)
LastVoice(k) == IF k = 0 THEN 0 ELSE IF obs.vlog[k] THEN k ELSE LastVoice(k - 1)

\* C7: once min_voice_frames frames of the tone have been processed, all
\* classified as voice, the Listening -> Recording transition has happened,
\* on one of these frames or before.
C7_RecordingStartsInTime ==
    (ToneIsVoice /\ Len(obs.vlog) >= script.lead + min_voice_frames(cfg)) =>
        (obs.t_rec >= 1 /\ obs.t_rec <= script.lead + min_voice_frames(cfg))

\* C7 witness: after some silence the recording started exactly on the
\* min_voice_frames-th frame of the tone
C7_Witness ==
    /\ ToneIsVoice
    /\ script.lead > 0
    /\ obs.t_rec = script.lead + min_voice_frames(cfg)
    /\ state = "Recording"

C8_UtteranceLength ==
    (ToneIsVoice /\ ScriptDone /\ ~obs.cut /\ Len(result_ch) = 1) =>
        LET want == Samples(bm.pre_roll)
                    + (script.tone + silence_frames_threshold(cfg)) * cfg.frame_samples
            got == Samples(result_ch[1])
        IN got >= want - cfg.frame_samples /\ got <= want + cfg.frame_samples

\* C8 amended: the utterance is what the pre-roll ring held when the
\* recording started (its capacity, or all the audio up to and including the
\* triggering frame when that is less), plus the triggering frame once more,
\* plus every frame after it up to the finalizing one.
C8_UtteranceLengthExact ==
    (ToneIsVoice /\ ScriptDone /\ ~obs.cut /\ Len(result_ch) = 1) =>
        Samples(result_ch[1]) =
            Min(Samples(bm.pre_roll), obs.t_rec * cfg.frame_samples)
            + (1 + obs.t_fin - obs.t_rec) * cfg.frame_samples

\* C8 witness: a finished run whose pre-roll ring had wrapped when the
\* recording started
C8_Witness ==
    /\ ToneIsVoice /\ ScriptDone /\ ~obs.cut /\ Len(result_ch) = 1
    /\ obs.t_rec * cfg.frame_samples > Samples(bm.pre_roll)

(***************************************************************************)
(* Chunk boundaries (SpecChunks)                                           *)
(***************************************************************************)
\* C27: the utterances emitted depend only on the stream, not on how it is
\* cut into chunks: once the whole script has been processed, the utterances
\* sent are those of a worker that got the same stream one frame per chunk.
C27_ChunkingIndependent ==
    ScriptDone => result_ch = FrameByFrame(cfg, script, ScriptFrames(script)).out

(***************************************************************************)
(* The application: the hotkey listener, the event loop, the transcription *)
(* threads and the polling thread that owns the controller                 *)
(***************************************************************************)
MaxHotkeys == 3
MaxStores == 2

HotkeyActions == {"PushToTalk", "AlwaysListen"}

UserEvent(ev, arg) == [ev |-> ev, arg |-> arg]

\* what the event loop does with one user event: st holds the mode and the
\* two flags, ok tells whether start_recording() or stream.play() succeeds;
\* spawn is the target status of the transcription thread started, if any
HandleUserEvent(e, st, ok) ==
    LET keep == [mode |-> st.mode, active |-> st.active, stream |-> st.stream,
                 spawn |-> "none"]
    IN  IF e.ev = "Hotkey" /\ e.arg = "PushToTalk"
        THEN CASE st.mode = "Idle" ->
                    IF ok THEN [keep EXCEPT !.mode = "Recording"] ELSE keep
               [] st.mode = "Recording" ->
                    [keep EXCEPT !.mode = "Processing", !.spawn = "Idle"]
               [] st.mode = "Processing" -> keep
               [] st.mode = "AlwaysListening" ->
                    IF ok THEN [keep EXCEPT !.active = FALSE, !.mode = "Recording"]
                          ELSE [keep EXCEPT !.active = FALSE]
        ELSE IF e.ev = "Hotkey" /\ e.arg = "AlwaysListen"
        THEN CASE st.mode = "Idle" ->
                    IF ok THEN [keep EXCEPT !.active = TRUE, !.stream = TRUE,
                                            !.mode = "AlwaysListening"]
                          ELSE [keep EXCEPT !.active = FALSE, !.stream = FALSE]
               [] st.mode = "AlwaysListening" ->
                    [keep EXCEPT !.active = FALSE, !.stream = FALSE, !.mode = "Idle"]
               [] OTHER -> keep
        ELSE IF e.ev = "AlwaysListenAudio"
        THEN [keep EXCEPT !.mode = "Processing", !.spawn = "AlwaysListening"]
        ELSE \* TranscriptionComplete(target_status)
             IF st.mode = "Processing"
             THEN [keep EXCEPT !.mode = IF e.arg = "AlwaysListening"
                                        THEN "AlwaysListening" ELSE "Idle"]
             ELSE keep

\* the hotkey listener thread forwards a hotkey press to the event loop
HotkeyPress(a) ==
    /\ nkeys < MaxHotkeys
    /\ nkeys' = nkeys + 1
    /\ events' = Append(events, UserEvent("Hotkey", a))
    /\ UNCHANGED <<mode, always_listen_active, jobs, always_listen_stream_running,
                   result_out>>
    /\ UNCHANGED <<cfg, result_rx, running, command_ch, audio_ch, result_ch, script>>
    /\ UNCHANGED <<workerVars, appVars, cbVars, ghostVars>>

\* the event loop handles the oldest user event
EventLoop ==
    /\ events # <<>>
    /\ \E ok \in BOOLEAN :
         LET r == HandleUserEvent(Head(events),
                                  [mode |-> mode, active |-> always_listen_active,
                                   stream |-> always_listen_stream_running], ok)
         IN  /\ mode' = r.mode
             /\ always_listen_active' = r.active
             /\ always_listen_stream_running' = r.stream
             /\ jobs' = IF r.spawn = "none" THEN jobs
                        ELSE [jobs EXCEPT ![r.spawn] = @ + 1]
    /\ events' = Tail(events)
    /\ UNCHANGED <<nkeys, result_out>>
    /\ UNCHANGED <<cfg, result_rx, running, command_ch, audio_ch, result_ch, script>>
    /\ UNCHANGED <<workerVars, appVars, cbVars, ghostVars>>

\* a transcription thread ends: it sends TranscriptionComplete(app_status)
TranscriptionDone ==
    /\ \E s \in TargetStatuses :
         /\ jobs[s] > 0
         /\ jobs' = [jobs EXCEPT ![s] = @ - 1]
         /\ events' = Append(events, UserEvent("TranscriptionComplete", s))
    /\ UNCHANGED <<mode, always_listen_active, nkeys, always_listen_stream_running,
                   result_out>>
    /\ UNCHANGED <<cfg, result_rx, running, command_ch, audio_ch, result_ch, script>>
    /\ UNCHANGED <<workerVars, appVars, cbVars, ghostVars>>

\* the rest of an iteration of the polling thread with the flag set:
\* try_recv_result(), and the utterance forwarded as AlwaysListenAudio
PollerForward ==
    IF result_ch # <<>>
    THEN /\ result_ch' = Tail(result_ch)
         /\ events' = Append(events, UserEvent("AlwaysListenAudio", "audio_data"))
    ELSE UNCHANGED <<result_ch, events>>

\* the command an iteration of the polling thread sends, "none" for none
PollerCommand(active, s) ==
    IF active THEN (IF s = "Paused" THEN "Start" ELSE "none")
              ELSE (IF s # "Paused" THEN "Stop" ELSE "none")

\* one iteration of the polling thread, up to a command_tx.send that waits
PollerPoll ==
    /\ app_pc = "idle"
    /\ LET cmd == PollerCommand(always_listen_active, state)
       IN  IF cmd = "none" \/ WorkerGone
           THEN /\ UNCHANGED <<command_ch, app_pc, app_cmd>>
                /\ IF always_listen_active THEN PollerForward
                                           ELSE UNCHANGED <<result_ch, events>>
           ELSE IF Len(command_ch) < CommandCapacity
           THEN /\ command_ch' = Append(command_ch, cmd)
                /\ UNCHANGED <<app_pc, app_cmd>>
                /\ IF always_listen_active THEN PollerForward
                                           ELSE UNCHANGED <<result_ch, events>>
           ELSE /\ app_pc' = "poll_send"
                /\ app_cmd' = cmd
                /\ UNCHANGED <<command_ch, result_ch, events>>
    /\ UNCHANGED <<mode, always_listen_active, jobs, nkeys,
                   always_listen_stream_running, result_out>>
    /\ UNCHANGED <<cfg, result_rx, running, audio_ch, script, ncmds>>
    /\ UNCHANGED <<workerVars, cbVars, ghostVars>>

\* the command_tx.send of the polling thread that waited returns, and the
\* iteration goes on
PollerSend ==
    /\ app_pc = "poll_send"
    /\ WorkerGone \/ Len(command_ch) < CommandCapacity
    /\ command_ch' = IF WorkerGone THEN command_ch ELSE Append(command_ch, app_cmd)
    /\ app_pc' = "idle"
    /\ IF app_cmd = "Start" THEN PollerForward ELSE UNCHANGED <<result_ch, events>>
    /\ UNCHANGED <<mode, always_listen_active, jobs, nkeys,
                   always_listen_stream_running, result_out>>
    /\ UNCHANGED <<cfg, result_rx, running, audio_ch, script, app_cmd, ncmds>>
    /\ UNCHANGED <<workerVars, cbVars, ghostVars>>

\* the always-listen stream delivers the next frame while it is running:
\* odd frames loud, even frames silent
StreamCallback ==
    /\ always_listen_stream_running
    /\ BurstCallback

\* The application: hotkeys of both kinds at any time, the event loop, the
\* transcription threads, the polling thread, the worker and the stream
MaxAppFrames == 2

AppStreamCallback ==
    /\ always_listen_stream_running
    /\ CaptureCallback(FrameGrains(cfg),
                       IF (stream_pos \div FrameGrains(cfg)) % 2 = 0 THEN 60 ELSE 0,
                       MaxAppFrames * FrameGrains(cfg),
                       MaxQueued)

InitApp == InitWith(ConfigB, NoScript)

NextApp ==
    \/ Worker
    \/ AppStreamCallback
    \/ PollerPoll
    \/ PollerSend
    \/ \E a \in HotkeyActions : HotkeyPress(a)
    \/ EventLoop
    \/ TranscriptionDone

SpecApp == InitApp /\ [][NextApp]_vars

\* the event loop stores b in always_listen_active and in the running flag of
\* the stream, as its handlers of the AlwaysListen hotkey do
StoreActive(b) ==
    /\ nkeys < MaxStores
    /\ always_listen_active # b
    /\ nkeys' = nkeys + 1
    /\ always_listen_active' = b
    /\ always_listen_stream_running' = b
    /\ UNCHANGED <<mode, events, jobs, result_out>>
    /\ UNCHANGED <<cfg, result_rx, running, command_ch, audio_ch, result_ch, script>>
    /\ UNCHANGED <<workerVars, appVars, cbVars, ghostVars>>

\* The polling thread and the worker, the flag an input: it is set and
\* cleared at any time, and the polling thread runs at any pace.
InitPoller == InitWith(ConfigB, NoScript)

NextPoller ==
    \/ Worker
    \/ StreamCallback
    \/ PollerPoll
    \/ PollerSend
    \/ \E b \in BOOLEAN : StoreActive(b)

SpecPoller == InitPoller /\ [][NextPoller]_vars

(***************************************************************************)
(* Audio around a pause (SpecPause)                                        *)
(***************************************************************************)
\* the stream positions of the grains of the utterance u
Ids(u) == {u[i].id : i \in 1..Len(u)}

\* the utterances sent so far, and the one finalize_recording is sending
Emitted == {result_ch[i] : i \in 1..Len(result_ch)} \cup
           (IF pc = "send" THEN {pending} ELSE {})

\* C29: after Paused -> Listening no utterance handed to send contains a
\* sample that went to the audio channel before the pause began.
C29_NothingSurvivesPause ==
    (obs.resumed /\ pc = "send") => \A id \in Ids(pending) : id > obs.mark

\* C30: the samples that were in the recording buffer when a Stop or Pause
\* was applied while Recording are in no utterance, sent before or after.
C30_PausedRecordingDropped ==
    \A u \in Emitted : Ids(u) \cap obs.held = {}

\* C30 witness: a recording was held when the pause began, the worker has
\* resumed, and an utterance has been sent since
C30_Witness ==
    /\ obs.held # {}
    /\ obs.resumed
    /\ last.ev = "fin" /\ last.outcome = "sent"
    /\ \E id \in Ids(result_ch[Len(result_ch)]) : id > obs.mark

(***************************************************************************)
(* The polling thread (SpecPoller)                                         *)
(***************************************************************************)
\* C37: the controller follows the flag: while the flag is false and the
\* state is not Paused, the worker in its result send and the polling thread
\* in its stop() never wait both: one of them can go on, so that the Stop is
\* applied and the state becomes Paused.
C37_PausedFollowsFlag ==
    (~always_listen_active /\ state # "Paused" /\ pc = "send" /\ app_pc = "poll_send")
        => (ENABLED WorkerSend \/ ENABLED PollerSend)

(***************************************************************************)
(* The application's mode and the flag (SpecApp)                           *)
(***************************************************************************)
\* C38: whenever the mode is AlwaysListening the always-listen flag is true,
\* and whenever the mode is Idle the flag is false.
C38_ModeMatchesFlag ==
    /\ mode = "AlwaysListening" => always_listen_active
    /\ mode = "Idle" => ~always_listen_active

(***************************************************************************)
(* The result sender handed to new() (SpecResultFull)                      *)
(***************************************************************************)
\* C39: nothing is ever sent on the channel whose sender is passed to new():
\* it stays empty, and every utterance finalize_recording sends is appended
\* to the controller's own result channel, the one try_recv_result and
\* recv_result_timeout read.
C39_OnlyInternalChannel ==
    /\ result_out = <<>>
    /\ [][/\ result_out' = result_out
          /\ (pc = "send" /\ pc' # "send" /\ result_rx)
                => result_ch' = Append(result_ch, pending)]_vars

\* C39 witness: an utterance was sent and the owner has taken it from the
\* controller's channel; the channel handed to new() is empty
C39_Witness ==
    /\ last.ev = "fin" /\ last.outcome = "sent"
    /\ result_rx
    /\ result_ch = <<>>
    /\ result_out = <<>>

====
